---- MODULE Spec2Model ----
(***************************************************************************)
(* f5::threading: the eventfd-backed limiter and unlimited channel         *)
(* (include/f5/threading/eventfd.hpp) and the vector-backed tsmap          *)
(* (include/f5/threading/map.hpp).                                         *)
(*                                                                         *)
(* Scheduling is cooperative: a coroutine runs without interruption until  *)
(* it suspends in fd::async_read.  The kernel read of the eventfd (which   *)
(* takes the counter and resets it) and the resumption of the coroutine    *)
(* that asked for it are two steps: the reactor performs the read and      *)
(* posts the completion, other handlers may run before the coroutine is    *)
(* resumed.  The 8 byte write of async_write is performed inside the call  *)
(* (the descriptor is writable below the kernel's counter limit), while    *)
(* the local `count` its buffer points to is alive, so the counter is      *)
(* increased within done()/produced(); only the completion handler runs    *)
(* later.  A write either adds its 8 byte value to the counter or fails    *)
(* and adds nothing.                                                       *)
(*                                                                         *)
(* A call on the tsmap holds its mutex from the first statement to the     *)
(* return.  It is one step where the calls are made one after the other,   *)
(* and three steps (arrival at the mutex, lock and lower_bound, the rest)  *)
(* where several threads call at once.  A pointer or reference a call      *)
(* returned is a slot of the vector's buffer; it outlives the call and the *)
(* mutex.                                                                  *)
(***************************************************************************)
EXTENDS Integers, Sequences, FiniteSets, TLC

\* ------------------------------------------------------------ bounds
\* Coroutines that call into the limiter / consume from the channel.
NumTasks == 2
\* Jobs the limiter hands out in one behaviour.
MaxJobs == 3
\* Largest limit the limiter is constructed with.
MaxLimit == 2
\* Largest argument of increase_limit / decrease_limit.
MaxDelta == 2
\* Number of increase_limit / decrease_limit calls in one behaviour.
MaxAdjust == 2
\* Width of the model's uint64_t (the program's is 64).
UintBits == 3
\* Number of produced() calls on the unlimited channel in one behaviour.
MaxProduced == 3
\* Largest argument of produced().
MaxCount == 2
\* Keys of the map are 1..MaxKey, values 1..MaxVal.
MaxKey == 3
MaxVal == 2
\* The threads that call the map concurrently use the keys 1..MaxRacedKey.
MaxRacedKey == 2

Tasks == 1..NumTasks
JobIds == 1..MaxJobs
Counts == 0..MaxCount
Keys == 1..MaxKey
RacedKeys == 1..MaxRacedKey
Vals == 1..MaxVal

\* ------------------------------------------------- unsigned arithmetic
Modulus == 2^UintBits

\* std::atomic<uint64_t>::operator+= / operator++
Add64(a, b) == (a + b) % Modulus

\* std::atomic<uint64_t>::operator-=
Sub64(a, b) == (a - b) % Modulus

\* uint64_t -> int64_t, the return type of fd::async_read
ToInt64(u) == IF u >= Modulus \div 2 THEN u - Modulus ELSE u

\* int64_t -> uint64_t, `const uint64_t count = fd.async_read(yield)`
ToUint64(i) == i % Modulus

\* The largest value an eventfd counter holds (2^64 - 2 in the program); a
\* write that would pass it does not complete.
EventfdMax == Modulus - 2

\* ------------------------------------------------------------- state
VARIABLES
    m_limit,        \* limiter::m_limit
    m_outstanding,  \* limiter::m_outstanding
    chan,           \* the counter of the limiter's eventfd
    pc,             \* per task: "idle", "nj_wait", "nj_read", "wfa_wait", "wfa_read"
    count,          \* per task: the local `count` of limiter::wait
    nextId,         \* number of jobs constructed so far
    jstate,         \* per job: "unborn", "live", "destroyed"
    completed,      \* per job: job::completed
    writes,         \* per job: the magnitudes it handed to async_write, in order
    lost,           \* number of done() writes that failed
    handled,        \* number of calls of an error handler given to done()
                    \*   (the empty one of ~job included)
    doneCalls,      \* per job: explicit done() calls made on it: 0, 1, or 2
                    \*   for two and more
    njCalls,        \* number of next_job() calls made
    drainedAt,      \* m_outstanding when wait_for_all_outstanding last
                    \*   returned (to any task), -1 before
    adjusts,        \* number of increase_limit / decrease_limit calls made
    decKind,        \* the last limit change: "none", "inc", "dec" (delta below
                    \*   the limit), "dec_zero" (delta = limit), "dec_wrap"
                    \*   (delta above the limit)
    decBelow        \* the last limit change was a decrease_limit(delta) with
                    \*   limit - delta below m_outstanding

VARIABLES
    uchan,          \* the counter of the unlimited channel's eventfd
    cpc,            \* per task: "idle", or "waiting" (suspended in consume)
    cret,           \* per task: what consume() last returned to it, -1 before
    cgood,          \* per task: sum of the counts written with success between
                    \*   the read before and the read that consume() returned
    call,           \* per task: the same sum over all produced() calls
    uGood,          \* sum of the counts written with success since the last read
    uAll,           \* sum of the counts of all produced() calls since the last read
    tGood,          \* sum of the counts written with success so far
    tRet,           \* sum of the values consume() has returned so far
    nProduced       \* number of produced() calls made

VARIABLES
    map,            \* tsmap::map, a sequence of <<key, value>>
    mret,           \* the last call on the map and what it returned
    cap,            \* capacity of the vector's buffer
    ref,            \* a reference a caller kept: the key it was returned for,
                    \*   the slot of the buffer it points into, and whether that
                    \*   buffer is still the vector's (key 0: none kept)
    first,          \* per key: the value the first emplace_if_not_found /
                    \*   add_if_not_found call with that key was given, 0 before
    nmade,          \* per key: values constructed for it: 0, 1, or 2 for two
                    \*   and more
    mutex,          \* tsmap::mutex: the thread that holds it, 0 when free
    raced,          \* the key of the last call made while the key was not in
                    \*   the map and another thread's call with the same key
                    \*   was in progress, 0 before
    mthr            \* per thread: its call in progress on the map ("idle";
                    \*   "lock": blocked in the constructor of unique_lock;
                    \*   "held": past lower_bound, inside the critical section)

limiterVars == <<m_limit, m_outstanding, chan, pc, count, nextId, jstate,
                 completed, writes, lost, handled, doneCalls, njCalls, drainedAt,
                 adjusts, decKind, decBelow>>

channelVars == <<uchan, cpc, cret, cgood, call, uGood, uAll, tGood, tRet,
                 nProduced>>

mapVars == <<map, mret, cap, ref, first, nmade, mutex, raced, mthr>>

vars == <<limiterVars, channelVars, mapVars>>

\* ------------------------------------------------------ limiter: helpers
\* Faulty variant of Admits: the comparison admits at the limit.
AdmitsAtLimit(limit, outstanding) == limit = 0 \/ outstanding <= limit

\* Faulty variant of Admits: a limit of 0 is not taken to mean "no limit".
AdmitsNoZero(limit, outstanding) == outstanding < limit

\* Faulty variant of Admits: next_job never waits.
AdmitsAlways(limit, outstanding) == TRUE

\* next_job: `if ( not limit || m_outstanding.load() < limit ) break;`
Admits(limit, outstanding) == limit = 0 \/ outstanding < limit

\* Faulty variant of Drained: the loop is left whatever the counter is.
DrainedAlways(outstanding) == TRUE

\* Faulty variant of Drained: the loop is never left.
DrainedNever(outstanding) == FALSE

\* wait_for_all_outstanding: `while ( m_outstanding ) wait(yield);`
Drained(outstanding) == outstanding = 0

\* Faulty variant of ShouldSend: done() signals every time it is called.
SendAlways(isCompleted) == TRUE

\* job::done: `if ( !completed )`
ShouldSend(isCompleted) == ~isCompleted

\* Faulty variant of WaitSub: a wake-up is taken to be one completed job.
WaitSubOne(outstanding, n) == Sub64(outstanding, 1)

\* wait: `m_outstanding -= count;`
WaitSub(outstanding, n) == Sub64(outstanding, n)

\* Faulty variant of EventfdRead: the eventfd is created with EFD_SEMAPHORE, a read
\* takes one unit.
EventfdReadSemaphore(counter) == [value |-> 1, rest |-> counter - 1]

\* Faulty variant of EventfdRead: a read leaves the counter as it is.
EventfdReadKeeps(counter) == [value |-> counter, rest |-> counter]

\* fd::create: `::eventfd(initval, flags)` with flags = 0: a read of the
\* eventfd takes the whole counter and resets it to 0.
EventfdRead(counter) == [value |-> counter, rest |-> 0]

\* Faulty variant of AsyncRead: the bytes read are never copied into `count`, which
\* keeps its initial 0.
AsyncReadUnfilled(counter) == 0

\* fd::async_read: the 8 bytes read from the eventfd, returned as int64_t.
AsyncRead(counter) == ToInt64(EventfdRead(counter).value)

\* Faulty variant of ReadCount: a wake-up is taken to be one completed job.
ReadCountOne(counter) == 1

\* wait: `const uint64_t count = fd.async_read(yield);`
ReadCount(counter) == ToUint64(AsyncRead(counter))

\* next_job calls in progress (suspended in wait)
Admitting == {t \in Tasks : pc[t] \in {"nj_wait", "nj_read"}}

\* limiter::limiter(ios, limit)
InitLimiter(limits) ==
    /\ m_limit \in limits
    /\ m_outstanding = 0
    /\ chan = 0
    /\ pc = [t \in Tasks |-> "idle"]
    /\ count = [t \in Tasks |-> 0]
    /\ nextId = 0
    /\ jstate = [j \in JobIds |-> "unborn"]
    /\ completed = [j \in JobIds |-> FALSE]
    /\ writes = [j \in JobIds |-> <<>>]
    /\ lost = 0
    /\ handled = 0
    /\ doneCalls = [j \in JobIds |-> 0]
    /\ njCalls = 0
    /\ drainedAt = -1
    /\ adjusts = 0
    /\ decKind = "none"
    /\ decBelow = FALSE

\* The tail of next_job once the loop breaks:
\* `++m_outstanding; return std::unique_ptr<job>(new job(*this));`
\* A behaviour hands out MaxJobs jobs at most: next_job is not called once
\* they are handed out, and a call that waits while the last of them is
\* handed out to another task waits on.
Admit(t, outstanding) ==
    /\ nextId < MaxJobs
    /\ m_outstanding' = Add64(outstanding, 1)
    /\ nextId' = nextId + 1
    /\ jstate' = [jstate EXCEPT ![nextId + 1] = "live"]
    /\ completed' = [completed EXCEPT ![nextId + 1] = FALSE]
    /\ pc' = [pc EXCEPT ![t] = "idle"]

\* limiter::next_job, from the call to its return or its first suspension.
NextJob(t) ==
    /\ pc[t] = "idle"
    /\ nextId < MaxJobs
    /\ njCalls' = njCalls + 1
    /\ IF Admits(m_limit, m_outstanding)
         THEN Admit(t, m_outstanding)
         ELSE /\ pc' = [pc EXCEPT ![t] = "nj_wait"]
              /\ UNCHANGED <<m_outstanding, nextId, jstate, completed>>
    /\ UNCHANGED <<m_limit, chan, count, writes, lost, handled, doneCalls,
                   drainedAt, adjusts, decKind, decBelow>>
    /\ UNCHANGED <<channelVars, mapVars>>

\* limiter::wait_for_all_outstanding, from the call to its return or its
\* first suspension.
WaitForAll(t) ==
    /\ pc[t] = "idle"
    /\ IF Drained(m_outstanding)
         THEN /\ drainedAt' = m_outstanding
              /\ pc' = pc
         ELSE /\ pc' = [pc EXCEPT ![t] = "wfa_wait"]
              /\ drainedAt' = drainedAt
    /\ UNCHANGED <<m_limit, m_outstanding, chan, count, nextId, jstate,
                   completed, writes, lost, handled, doneCalls, njCalls, adjusts,
                   decKind, decBelow>>
    /\ UNCHANGED <<channelVars, mapVars>>

\* fd::async_read as the reactor performs it for a suspended task: the
\* eventfd is readable when its counter is not 0; the read takes the counter
\* and resets it.
Read(t) ==
    /\ pc[t] \in {"nj_wait", "wfa_wait"}
    /\ chan > 0
    /\ count' = [count EXCEPT ![t] = ReadCount(chan)]
    /\ chan' = EventfdRead(chan).rest
    /\ pc' = [pc EXCEPT ![t] = IF pc[t] = "nj_wait" THEN "nj_read" ELSE "wfa_read"]
    /\ UNCHANGED <<m_limit, m_outstanding, nextId, jstate, completed, writes,
                   lost, handled, doneCalls, njCalls, drainedAt, adjusts, decKind, decBelow>>
    /\ UNCHANGED <<channelVars, mapVars>>

\* The coroutine is resumed in limiter::wait and runs to its next suspension
\* or to the return of the call that waited.
Resume(t) ==
    /\ pc[t] \in {"nj_read", "wfa_read"}
    /\ count' = [count EXCEPT ![t] = 0]
    /\ LET out == WaitSub(m_outstanding, count[t]) IN
         IF pc[t] = "nj_read"
           THEN /\ IF Admits(m_limit, out)
                     THEN Admit(t, out)
                     ELSE /\ m_outstanding' = out
                          /\ pc' = [pc EXCEPT ![t] = "nj_wait"]
                          /\ UNCHANGED <<nextId, jstate, completed>>
                /\ drainedAt' = drainedAt
           ELSE /\ m_outstanding' = out
                /\ IF Drained(out)
                     THEN /\ pc' = [pc EXCEPT ![t] = "idle"]
                          /\ drainedAt' = out
                     ELSE /\ pc' = [pc EXCEPT ![t] = "wfa_wait"]
                          /\ drainedAt' = drainedAt
                /\ UNCHANGED <<nextId, jstate, completed>>
    /\ UNCHANGED <<m_limit, chan, writes, lost, handled, doneCalls, njCalls, adjusts,
                   decKind, decBelow>>
    /\ UNCHANGED <<channelVars, mapVars>>

\* Faulty variant of HandlerCalled: the handler is called on every completion.
HandlerAlways(ok) == TRUE

\* job::done, the completion handler of async_write:
\* `if ( error || bytes != sizeof(uint64_t) ) efn(error, bytes);`
\* ok: no error and all 8 bytes written.
HandlerCalled(ok) == ~ok

\* job::done as called with the job's state `isCompleted`; ok: the write of
\* the 8 bytes succeeded (else `error || bytes != sizeof(uint64_t)`).
\* Leaves jstate to the caller.
Signal(j, ok) ==
    IF ShouldSend(completed[j])
      THEN /\ chan + 1 <= EventfdMax
           /\ completed' = [completed EXCEPT ![j] = TRUE]
           /\ writes' = [writes EXCEPT ![j] = Append(@, 1)]
           /\ chan' = IF ok THEN chan + 1 ELSE chan
           /\ lost' = IF ok THEN lost ELSE lost + 1
           /\ handled' = IF HandlerCalled(ok) THEN handled + 1 ELSE handled
      ELSE UNCHANGED <<completed, writes, chan, lost, handled>>

\* job::done(efn), called by the holder of the job
Done(j, ok) ==
    /\ jstate[j] = "live"
    /\ Signal(j, ok)
    /\ doneCalls' = [doneCalls EXCEPT ![j] = IF @ < 2 THEN @ + 1 ELSE @]
    /\ UNCHANGED <<m_limit, m_outstanding, pc, count, nextId, jstate,
                   njCalls, drainedAt, adjusts, decKind, decBelow>>
    /\ UNCHANGED <<channelVars, mapVars>>

\* job::~job: `done([](auto, auto){});`, then the handle is gone
Destroy(j, ok) ==
    /\ jstate[j] = "live"
    /\ Signal(j, ok)
    /\ jstate' = [jstate EXCEPT ![j] = "destroyed"]
    /\ UNCHANGED <<m_limit, m_outstanding, pc, count, nextId, doneCalls,
                   njCalls, drainedAt, adjusts, decKind, decBelow>>
    /\ UNCHANGED <<channelVars, mapVars>>

\* limiter::increase_limit
IncreaseLimit(l) ==
    /\ adjusts < MaxAdjust
    /\ adjusts' = adjusts + 1
    /\ m_limit' = Add64(m_limit, l)
    /\ decKind' = "inc"
    /\ decBelow' = FALSE
    /\ UNCHANGED <<m_outstanding, chan, pc, count, nextId, jstate, completed,
                   writes, lost, handled, doneCalls, njCalls, drainedAt>>
    /\ UNCHANGED <<channelVars, mapVars>>

\* Faulty variant of DecreaseLimit: the limit saturates at 0.
DecreaseLimitClamped(l) ==
    /\ adjusts < MaxAdjust
    /\ adjusts' = adjusts + 1
    /\ m_limit' = IF l > m_limit THEN 0 ELSE m_limit - l
    /\ decKind' = IF l < m_limit THEN "dec"
                  ELSE IF l = m_limit THEN "dec_zero" ELSE "dec_wrap"
    /\ decBelow' = (m_limit - l < m_outstanding)
    /\ UNCHANGED <<m_outstanding, chan, pc, count, nextId, jstate, completed,
                   writes, lost, handled, doneCalls, njCalls, drainedAt>>
    /\ UNCHANGED <<channelVars, mapVars>>

\* limiter::decrease_limit
DecreaseLimit(l) ==
    /\ adjusts < MaxAdjust
    /\ adjusts' = adjusts + 1
    /\ m_limit' = Sub64(m_limit, l)
    /\ decKind' = IF l < m_limit THEN "dec"
                  ELSE IF l = m_limit THEN "dec_zero" ELSE "dec_wrap"
    /\ decBelow' = (m_limit - l < m_outstanding)
    /\ UNCHANGED <<m_outstanding, chan, pc, count, nextId, jstate, completed,
                   writes, lost, handled, doneCalls, njCalls, drainedAt>>
    /\ UNCHANGED <<channelVars, mapVars>>

\* ---------------------------------------------------- unlimited channel
\* unlimited::consume: `return fd.async_read(yield);` as uint64_t
ConsumeValue(counter) == ToUint64(AsyncRead(counter))

\* unlimited::produced(count); ok: the write of the 8 bytes succeeded.  The
\* completion handler ignores `error` and `bytes`.
Produced(n, ok) ==
    /\ nProduced < MaxProduced
    /\ uchan + n <= EventfdMax
    /\ nProduced' = nProduced + 1
    /\ uchan' = IF ok THEN uchan + n ELSE uchan
    /\ uGood' = IF ok THEN uGood + n ELSE uGood
    /\ tGood' = IF ok THEN tGood + n ELSE tGood
    /\ uAll' = uAll + n
    /\ UNCHANGED <<cpc, cret, cgood, call, tRet>>
    /\ UNCHANGED <<limiterVars, mapVars>>

\* unlimited::consume, the call: the task suspends in fd::async_read
Consume(c) ==
    /\ cpc[c] = "idle"
    /\ cpc' = [cpc EXCEPT ![c] = "waiting"]
    /\ UNCHANGED <<uchan, cret, cgood, call, uGood, uAll, tGood, tRet, nProduced>>
    /\ UNCHANGED <<limiterVars, mapVars>>

\* unlimited::consume, the read of the readable eventfd and the return of
\* the value read
ConsumeReturn(c) ==
    /\ cpc[c] = "waiting"
    /\ uchan > 0
    /\ cret' = [cret EXCEPT ![c] = ConsumeValue(uchan)]
    /\ uchan' = EventfdRead(uchan).rest
    /\ cpc' = [cpc EXCEPT ![c] = "idle"]
    /\ cgood' = [cgood EXCEPT ![c] = uGood]
    /\ call' = [call EXCEPT ![c] = uAll]
    /\ uGood' = 0
    /\ uAll' = 0
    /\ tRet' = tRet + ConsumeValue(uchan)
    /\ UNCHANGED <<tGood, nProduced>>
    /\ UNCHANGED <<limiterVars, mapVars>>

\* ------------------------------------------------------------------ tsmap
\* find's `return nullptr`
NullPtr == 0

\* std::lower_bound over [first, first + len) with tsmap's comparison
\* `l.first < r`; positions are 1-based, Len(m) + 1 is end().
RECURSIVE LowerBoundFrom(_, _, _, _)
LowerBoundFrom(m, k, first_, len) ==
    IF len <= 0 THEN first_
    ELSE LET half == len \div 2
             mid == first_ + half
         IN  IF m[mid][1] < k
               THEN LowerBoundFrom(m, k, mid + 1, len - half - 1)
               ELSE LowerBoundFrom(m, k, first_, half)

\* tsmap::lower_bound
lower_bound(m, k) == LowerBoundFrom(m, k, 1, Len(m))

\* Faulty variant of InsertAt: the new pair is pushed at the back.
InsertAtBack(m, i, e) == Append(m, e)

\* std::vector::emplace(bound, ...): the pair is constructed at position i,
\* the pairs from i on move up by one.
InsertAt(m, i, e) == SubSeq(m, 1, i - 1) \o <<e>> \o SubSeq(m, i, Len(m))

\* Faulty variant of KeyAt: the key is never taken to be there.
KeyAtNever(m, bound, k) == FALSE

\* `if ( bound != map.end() && bound->first == k )`
KeyAt(m, bound, k) == bound # Len(m) + 1 /\ m[bound][1] = k

\* Faulty variant of Invokes: the value is made before the key is looked up.
InvokesAlways(found) == TRUE

\* The constructor arguments, and `lambda()`, are arguments of map.emplace
\* only: the value is made when the key was not found, and only then.
Invokes(found) == ~found

\* The capacity std::vector takes when it outgrows a buffer of `capacity`
\* pairs: libstdc++ and libc++ double it.
Grown(capacity) == IF capacity = 0 THEN 1 ELSE 2 * capacity

\* The value stored for k in m, NullPtr when m holds no pair with key k.
Lookup(m, k) ==
    IF \E i \in 1..Len(m) : m[i][1] = k
      THEN m[CHOOSE i \in 1..Len(m) : m[i][1] = k][2]
      ELSE NullPtr

NoCall == [op |-> "none", key |-> 0, pos |-> 0, val |-> 0, arg |-> 0,
           made |-> FALSE]

NoRef == [key |-> 0, pos |-> 0, live |-> FALSE]

\* tsmap::find
Find(k) ==
    /\ LET found == lower_bound(map, k) IN
         mret' = IF found = Len(map) + 1
                   THEN [NoCall EXCEPT !.op = "find", !.key = k]
                   ELSE [NoCall EXCEPT !.op = "find", !.key = k, !.pos = found,
                                       !.val = map[found][2]]
    /\ UNCHANGED <<map, cap, ref, first, nmade, mutex, raced, mthr>>
    /\ UNCHANGED <<limiterVars, channelVars>>

\* The body of emplace_if_not_found and add_if_not_found after lower_bound
\* has given `bound`: the value v is what the constructor arguments, or the
\* call of the lambda, give.  An emplace into a full buffer moves the pairs
\* to a new buffer; otherwise the pairs from `bound` on move up by one slot.
AddWithBound(name, k, v, bound) ==
    LET found == KeyAt(map, bound, k) IN
    /\ first' = IF first[k] = 0 THEN [first EXCEPT ![k] = v] ELSE first
    /\ nmade' = IF Invokes(found)
                  THEN [nmade EXCEPT ![k] = IF @ < 2 THEN @ + 1 ELSE @]
                  ELSE nmade
    /\ IF found
         THEN /\ map' = map
              /\ mret' = [op |-> name, key |-> k, pos |-> bound,
                          val |-> map[bound][2], arg |-> v,
                          made |-> Invokes(found)]
              /\ UNCHANGED <<cap, ref>>
         ELSE /\ map' = InsertAt(map, bound, <<k, v>>)
              /\ mret' = [op |-> name, key |-> k, pos |-> bound,
                          val |-> map'[bound][2], arg |-> v,
                          made |-> Invokes(found)]
              /\ IF Len(map) = cap
                   THEN /\ cap' = Grown(cap)
                        /\ ref' = IF ref.key = 0 THEN ref
                                  ELSE [ref EXCEPT !.live = FALSE]
                   ELSE UNCHANGED <<cap, ref>>

\* The two calls as one step each: the mutex is free at the call and held
\* from the first statement to the return.
AddAtBound(name, k, v) ==
    /\ AddWithBound(name, k, v, lower_bound(map, k))
    /\ UNCHANGED <<mutex, raced, mthr>>

\* tsmap::emplace_if_not_found(k, args...)
EmplaceIfNotFound(k, v) ==
    /\ AddAtBound("emplace", k, v)
    /\ UNCHANGED <<limiterVars, channelVars>>

\* tsmap::add_if_not_found(k, lambda), v the value lambda() returns
AddIfNotFound(k, v) ==
    /\ AddAtBound("add", k, v)
    /\ UNCHANGED <<limiterVars, channelVars>>

\* The caller keeps the reference (find: the pointer) that the last call
\* returned, when it designates the value of the key the call was made for.
Hold ==
    /\ mret.pos # 0
    /\ map[mret.pos][1] = mret.key
    /\ ref' = [key |-> mret.key, pos |-> mret.pos, live |-> TRUE]
    /\ UNCHANGED <<map, mret, cap, first, nmade, mutex, raced, mthr>>
    /\ UNCHANGED <<limiterVars, channelVars>>

\* ------------------------------------------------ tsmap, thread by thread
Idle == [pc |-> "idle", key |-> 0, bound |-> 0]

\* Faulty variant of CanLock: the calls do not exclude each other.
CanLockAlways(holder) == TRUE

\* `std::unique_lock<std::mutex> lock(mutex);` returns when the mutex is free
CanLock(holder) == holder = 0

\* A thread calls emplace_if_not_found or add_if_not_found with key k and
\* arrives at the mutex.
MapCall(t, k) ==
    /\ mthr[t].pc = "idle"
    /\ mthr' = [mthr EXCEPT ![t] = [pc |-> "lock", key |-> k, bound |-> 0]]
    /\ raced' = IF /\ Lookup(map, k) = NullPtr
                    /\ \E u \in Tasks \ {t} :
                          mthr[u].pc # "idle" /\ mthr[u].key = k
                   THEN k ELSE raced
    /\ UNCHANGED <<map, mret, cap, ref, first, nmade, mutex>>
    /\ UNCHANGED <<limiterVars, channelVars>>

\* The thread takes the mutex and runs `auto bound = lower_bound(k);`
MapLock(t) ==
    /\ mthr[t].pc = "lock"
    /\ CanLock(mutex)
    /\ mutex' = t
    /\ mthr' = [mthr EXCEPT ![t].pc = "held",
                            ![t].bound = lower_bound(map, mthr[t].key)]
    /\ UNCHANGED <<map, mret, cap, ref, first, nmade, raced>>
    /\ UNCHANGED <<limiterVars, channelVars>>

\* The thread runs the rest of the call (name: which of the two it is in, v:
\* the value its arguments or its lambda make), returns, and the destructor
\* of `lock` frees the mutex.
MapFinish(t, name, v) ==
    /\ mthr[t].pc = "held"
    /\ AddWithBound(name, mthr[t].key, v, mthr[t].bound)
    /\ mutex' = 0
    /\ raced' = raced
    /\ mthr' = [mthr EXCEPT ![t] = Idle]
    /\ UNCHANGED <<limiterVars, channelVars>>

\* ------------------------------------------------------ specifications
\* unlimited::unlimited(ios): fd::create() with initval = 0
InitChannel ==
    /\ uchan = 0
    /\ cpc = [c \in Tasks |-> "idle"]
    /\ cret = [c \in Tasks |-> -1]
    /\ cgood = [c \in Tasks |-> 0]
    /\ call = [c \in Tasks |-> 0]
    /\ uGood = 0
    /\ uAll = 0
    /\ tGood = 0
    /\ tRet = 0
    /\ nProduced = 0

\* tsmap's implicit constructor: an empty vector
InitMap ==
    /\ map = <<>>
    /\ mret = NoCall
    /\ cap = 0
    /\ ref = NoRef
    /\ first = [k \in Keys |-> 0]
    /\ nmade = [k \in Keys |-> 0]
    /\ mutex = 0
    /\ raced = 0
    /\ mthr = [t \in Tasks |-> Idle]

Init == InitLimiter(0..MaxLimit) /\ InitChannel /\ InitMap

\* The limiter with a constant limit, any task admitting or draining.
Next ==
    \/ \E t \in Tasks : NextJob(t)
    \/ \E t \in Tasks : WaitForAll(t)
    \/ \E t \in Tasks : Read(t)
    \/ \E t \in Tasks : Resume(t)
    \/ \E j \in JobIds, ok \in BOOLEAN : Done(j, ok)
    \/ \E j \in JobIds, ok \in BOOLEAN : Destroy(j, ok)

Spec == Init /\ [][Next]_vars

\* The limiter with a constant limit L > 0 and one admitting task (task 1);
\* any task may drain with wait_for_all_outstanding.
InitBounded == InitLimiter(1..MaxLimit) /\ InitChannel /\ InitMap

NextOneAdmitter ==
    \/ NextJob(1)
    \/ \E t \in Tasks : WaitForAll(t)
    \/ \E t \in Tasks : Read(t)
    \/ \E t \in Tasks : Resume(t)
    \/ \E j \in JobIds, ok \in BOOLEAN : Done(j, ok)
    \/ \E j \in JobIds, ok \in BOOLEAN : Destroy(j, ok)

SpecOneAdmitter == InitBounded /\ [][NextOneAdmitter]_vars

\* The limiter with a constant limit L > 0 and every task calling next_job;
\* no task calls wait_for_all_outstanding.
NextAdmitters ==
    \/ \E t \in Tasks : NextJob(t)
    \/ \E t \in Tasks : Read(t)
    \/ \E t \in Tasks : Resume(t)
    \/ \E j \in JobIds, ok \in BOOLEAN : Done(j, ok)
    \/ \E j \in JobIds, ok \in BOOLEAN : Destroy(j, ok)

SpecAdmitters == InitBounded /\ [][NextAdmitters]_vars

\* The limiter with a constant limit L > 0 and task 1 alone, which only calls
\* next_job.  The reactor performs the read of a readable eventfd and resumes
\* the coroutine whose read completed: weak fairness of Read and Resume.
NextScenario ==
    \/ NextJob(1)
    \/ Read(1)
    \/ Resume(1)
    \/ \E j \in JobIds, ok \in BOOLEAN : Done(j, ok)
    \/ \E j \in JobIds, ok \in BOOLEAN : Destroy(j, ok)

FairScenario ==
    /\ InitBounded
    /\ [][NextScenario]_vars
    /\ WF_vars(Read(1))
    /\ WF_vars(Resume(1))

\* The limiter drained by task 2: task 1 calls next_job while no drain is in
\* progress, task 2 calls wait_for_all_outstanding while task 1 is not inside
\* next_job (so that task 2 is the only reader of the eventfd during a
\* drain), and every send succeeds.  The reactor performs the read of a
\* readable eventfd and resumes the coroutine whose read completed, and the
\* handle of every job is destroyed in the end: weak fairness of Read(2),
\* Resume(2) and Destroy.
NextDrain ==
    \/ (pc[2] = "idle" /\ NextJob(1))
    \/ Read(1)
    \/ Resume(1)
    \/ (pc[1] = "idle" /\ WaitForAll(2))
    \/ Read(2)
    \/ Resume(2)
    \/ \E j \in JobIds : Done(j, TRUE)
    \/ \E j \in JobIds : Destroy(j, TRUE)

FairDrain ==
    /\ Init
    /\ [][NextDrain]_vars
    /\ WF_vars(Read(2))
    /\ WF_vars(Resume(2))
    /\ \A j \in JobIds : WF_vars(Destroy(j, TRUE))

\* The limiter with task 1 alone, which only calls next_job, and a limit that
\* is increased and decreased.
NextAdjust ==
    \/ NextJob(1)
    \/ Read(1)
    \/ Resume(1)
    \/ \E j \in JobIds, ok \in BOOLEAN : Done(j, ok)
    \/ \E j \in JobIds, ok \in BOOLEAN : Destroy(j, ok)
    \/ \E l \in 1..MaxDelta : IncreaseLimit(l)
    \/ \E l \in 1..MaxDelta : DecreaseLimit(l)

SpecAdjust == Init /\ [][NextAdjust]_vars

\* The limiter with a limit that is increased and decreased, task 1 calling
\* next_job, any task calling wait_for_all_outstanding, and jobs that signal
\* at their destruction, with success.
NextAdjustDrain ==
    \/ NextJob(1)
    \/ \E t \in Tasks : WaitForAll(t)
    \/ \E t \in Tasks : Read(t)
    \/ \E t \in Tasks : Resume(t)
    \/ \E j \in JobIds : Destroy(j, TRUE)
    \/ \E l \in 1..MaxDelta : IncreaseLimit(l)
    \/ \E l \in 1..MaxDelta : DecreaseLimit(l)

SpecAdjustDrain == Init /\ [][NextAdjustDrain]_vars

\* The unlimited channel: any number of produced() calls, any task consuming.
NextChannel ==
    \/ \E n \in Counts, ok \in BOOLEAN : Produced(n, ok)
    \/ \E c \in Tasks : Consume(c)
    \/ \E c \in Tasks : ConsumeReturn(c)

SpecChannel == Init /\ [][NextChannel]_vars

\* The map: every call holds the mutex from its first statement to its
\* return, so each call is one step.
NextMap ==
    \/ \E k \in Keys : Find(k)
    \/ \E k \in Keys, v \in Vals : EmplaceIfNotFound(k, v)
    \/ \E k \in Keys, v \in Vals : AddIfNotFound(k, v)

SpecMap == Init /\ [][NextMap]_vars

\* The map with a caller that keeps a reference it was returned.
NextMapRefs ==
    \/ NextMap
    \/ Hold

SpecMapRefs == Init /\ [][NextMapRefs]_vars

\* The map called by several threads: a call is three steps, the arrival at
\* the mutex, the taking of it with lower_bound, and the rest.
NextMapThreads ==
    \/ \E t \in Tasks, k \in RacedKeys : MapCall(t, k)
    \/ \E t \in Tasks : MapLock(t)
    \/ \E t \in Tasks, v \in Vals : MapFinish(t, "emplace", v)
    \/ \E t \in Tasks, v \in Vals : MapFinish(t, "add", v)

SpecMapThreads == Init /\ [][NextMapThreads]_vars

\* ------------------------------------------------------ derived counts
RECURSIVE SumCount(_)
SumCount(ts) ==
    IF ts = {} THEN 0
    ELSE LET t == CHOOSE x \in ts : TRUE IN count[t] + SumCount(ts \ {t})

\* Units read from the eventfd by a task that has not been resumed yet.
InFlight == SumCount(Tasks)

\* Jobs handed out whose done() has not been invoked (explicitly or by ~job).
Unsignalled == Cardinality({j \in JobIds : jstate[j] = "live" /\ ~completed[j]})

\* ------------------------------------------------------------- claims

\* C1: with one admitting task and a constant limit L > 0, m_outstanding
\* never exceeds L, whatever next_job calls, completions and drains happen.
C1_OutstandingBounded == m_outstanding <= m_limit

\* C1 witness: the limit was reached, the admitter waited and was admitted
\* again, and outstanding is at the limit.
C1_Witness ==
    /\ m_outstanding = m_limit
    /\ nextId > m_limit
    /\ pc[1] = "idle"

\* C2: every job hands exactly one write of magnitude 1 to async_write over
\* its lifetime: never more than one, and one once the handle is destroyed,
\* whether done() was called once, several times or never.
C2_ExactlyOneSignal ==
    \A j \in JobIds :
        /\ Len(writes[j]) <= 1
        /\ \A i \in 1..Len(writes[j]) : writes[j][i] = 1
        /\ completed[j] <=> Len(writes[j]) = 1
        /\ jstate[j] = "destroyed" => Len(writes[j]) = 1

\* C2 witness: three destroyed jobs: done() never called, called once,
\* called several times.
C2_Witness ==
    \E a, b, c \in JobIds :
        /\ jstate[a] = "destroyed" /\ doneCalls[a] = 0
        /\ jstate[b] = "destroyed" /\ doneCalls[b] = 1
        /\ jstate[c] = "destroyed" /\ doneCalls[c] = 2

\* C3: wait_for_all_outstanding returns only with m_outstanding = 0, and a
\* call made with m_outstanding = 0 does not suspend on the channel.
C3_DrainReturnsAtZero ==
    /\ [](drainedAt \in {-1, 0})
    /\ [][\A t \in Tasks :
            (pc[t] = "idle" /\ pc'[t] = "wfa_wait") => m_outstanding # 0]_vars

\* C3 witness: with no limit (next_job never reads the channel) two jobs and
\* more were admitted and a drain returned with everything subtracted.
C3_Witness ==
    /\ m_limit = 0
    /\ nextId >= 2
    /\ m_outstanding = 0
    /\ drainedAt = 0
    /\ \A t \in Tasks : pc[t] = "idle"

\* C4 as stated: m_outstanding is the number of jobs admitted on which done()
\* has not been invoked and whose handle has not been destroyed.
C4_Original == m_outstanding = Unsignalled

\* C4 as amended: m_outstanding is the number of admitted jobs whose
\* completion has not yet been subtracted by wait(): the jobs not yet
\* signalled, the units pending in the eventfd, the units read by a task
\* that has not yet subtracted them, and the signals whose write failed.
C4_OutstandingUntilConsumed ==
    m_outstanding = Unsignalled + chan + InFlight + lost

\* C4 witness: signalled jobs still counted: one pending in the eventfd, one
\* read and not yet subtracted, one whose write failed.
C4_Witness ==
    /\ chan > 0
    /\ InFlight > 0
    /\ lost > 0
    /\ m_outstanding > Unsignalled

\* C7: with limit = 0 a next_job call never suspends and always admits:
\* m_outstanding goes up by one and a job is returned, whatever m_outstanding
\* and the eventfd counter are.
C7_ZeroLimitUnbounded ==
    /\ [](m_limit = 0 => Admitting = {})
    /\ [][(m_limit = 0 /\ njCalls' = njCalls + 1) =>
            /\ nextId' = nextId + 1
            /\ jstate'[nextId'] = "live"
            /\ m_outstanding' = Add64(m_outstanding, 1)
            /\ pc' = pc]_vars

\* C7 witness: limit 0, every job of the model admitted and none subtracted,
\* a signal pending in the eventfd.
C7_Witness ==
    /\ m_limit = 0
    /\ m_outstanding = MaxJobs
    /\ nextId = MaxJobs
    /\ chan > 0

\* C6, its safety parts.  After k <= L calls of next_job all k were admitted
\* without suspending and m_outstanding = k; the call made with L jobs
\* admitted suspends; and once the suspended call has admitted with exactly
\* one job signalled, m_outstanding is L again.
C6_FirstAdmitted ==
    [](njCalls <= m_limit =>
         /\ nextId = njCalls
         /\ m_outstanding = njCalls
         /\ pc[1] = "idle")

C6_NextSuspends ==
    [][(njCalls = m_limit /\ njCalls' = njCalls + 1) =>
         (pc'[1] = "nj_wait" /\ nextId' = nextId)]_vars

C6_AgainAtLimit ==
    []((/\ pc[1] = "idle"
        /\ nextId = m_limit + 1
        /\ Cardinality({j \in JobIds : completed[j]}) = 1)
       => m_outstanding = m_limit)

\* The (L+1)-th call is suspended after the first L were admitted.
ScenarioBlocked ==
    /\ pc[1] = "nj_wait"
    /\ nextId = m_limit
    /\ m_outstanding = m_limit

ScenarioAdmitted == pc[1] = "idle" /\ nextId = m_limit + 1

C8_Original ==
    [][(decBelow /\ nextId' = nextId + 1) =>
         (decKind = "dec" /\ Sub64(m_outstanding', 1) < m_limit)]_vars

\* C8 as amended: for delta below the old limit, a next_job call made with
\* m_outstanding not under the new limit suspends, and next_job admits only
\* once m_outstanding is under the new limit.  For delta equal to the old
\* limit the new limit is 0 and next_job never suspends; for delta above the
\* old limit the limit wraps around.
C8_DecreaseBlocks ==
    /\ [][(decBelow /\ decKind = "dec" /\ nextId' = nextId + 1) =>
            Sub64(m_outstanding', 1) < m_limit]_vars
    /\ [][(/\ decBelow
           /\ decKind = "dec"
           /\ njCalls' = njCalls + 1
           /\ m_outstanding >= m_limit)
          => (pc'[1] = "nj_wait" /\ nextId' = nextId)]_vars
    /\ [](decKind = "dec_zero" => m_limit = 0)
    /\ [][(decKind = "dec_zero" /\ njCalls' = njCalls + 1) =>
            nextId' = nextId + 1]_vars
    /\ [](decKind = "dec_wrap" => m_limit >= Modulus - MaxDelta)

\* C8 witness: after a decrease to a limit >= 1 below m_outstanding a
\* next_job call is suspended.
C8_Witness ==
    /\ decKind = "dec"
    /\ decBelow
    /\ m_outstanding > m_limit
    /\ pc[1] = "nj_wait"

\* C5 as stated: the value consume() returns is the sum of the counts of all
\* produced() calls since the read before.
C5_Original ==
    \A c \in Tasks : cret[c] # -1 => cret[c] = call[c]

\* C5 as amended: the value consume() returns is the sum of the counts of
\* the produced() calls since the read before whose write succeeded, and the
\* eventfd counter is reset: the counter is the sum of the counts written
\* with success since, every unit written with success is either pending in
\* the counter or was returned by one consume(), and consume() returns only
\* from a counter that is not 0.
C5_ConsumeReturnsSum ==
    /\ [](\A c \in Tasks : cret[c] # -1 => (cret[c] = cgood[c] /\ cret[c] > 0))
    /\ [](uchan = uGood)
    /\ [](tGood = tRet + uchan)
    /\ [][\A c \in Tasks :
            (cpc[c] = "waiting" /\ cpc'[c] = "idle") =>
                (uchan > 0 /\ uchan' = 0 /\ cret'[c] = uchan)]_vars

\* C5 witness: a consume() returned the sum of several produced() calls, at
\* least two of them with a count above 0, after an earlier consume().
C5_Witness ==
    \E c, d \in Tasks :
        /\ c # d
        /\ cret[d] > 0
        /\ cret[c] > MaxCount
        /\ cret[c] = cgood[c]
        /\ cpc[c] = "idle"

\* C9: find(k) returns the value stored for k when k was inserted and
\* nullptr when it was not.
C9_FindReturnsStored ==
    mret.op = "find" => mret.val = Lookup(map, mret.key)

\* C10: the pairs of the map are strictly ascending by key.
C10_StrictlyAscending ==
    \A i \in 1..(Len(map) - 1) : map[i][1] < map[i + 1][1]

\* C10 witness: a map of three pairs whose last pair was inserted in the
\* middle.
C10_Witness ==
    /\ Len(map) = 3
    /\ mret.made
    /\ mret.pos = 2

\* C11: emplace_if_not_found is first-writer-wins and idempotent per key: it
\* returns the value stored for the key, which is the value the first call
\* with that key constructed, and a call with a key that is in the map leaves
\* the map unchanged and constructs nothing, whatever its arguments.
C11_FirstWriterWins ==
    /\ [](mret.op = "emplace" =>
            /\ mret.val = first[mret.key]
            /\ Lookup(map, mret.key) = first[mret.key])
    /\ [][(/\ <<mret, map, nmade>>' # <<mret, map, nmade>>
           /\ mret'.op = "emplace"
           /\ Lookup(map, mret'.key) # NullPtr)
          => (map' = map /\ nmade' = nmade /\ ~mret'.made)]_vars

\* C11 witness: a second emplace_if_not_found with the same key and other
\* arguments returned the value of the first.
C11_Witness ==
    /\ mret.op = "emplace"
    /\ ~mret.made
    /\ mret.arg # mret.val
    /\ mret.val = first[mret.key]

\* C12: add_if_not_found does not invoke the factory when the key is in the
\* map (it returns the stored value and leaves the map unchanged), and
\* invokes it once when the key is not, storing its result under the key.
C12_FactoryOnlyWhenAbsent ==
    [][(/\ <<mret, map, nmade>>' # <<mret, map, nmade>>
        /\ mret'.op = "add")
       => IF Lookup(map, mret'.key) # NullPtr
            THEN /\ ~mret'.made
                 /\ nmade' = nmade
                 /\ map' = map
                 /\ mret'.val = Lookup(map, mret'.key)
            ELSE /\ mret'.made
                 /\ nmade' = [nmade EXCEPT ![mret'.key] = nmade[mret'.key] + 1]
                 /\ Len(map') = Len(map) + 1
                 /\ Lookup(map', mret'.key) = mret'.arg
                 /\ mret'.val = mret'.arg]_vars

\* C12 witness: add_if_not_found with a key that is in the map and a factory
\* that makes another value returned the stored value.
C12_Witness ==
    /\ mret.op = "add"
    /\ ~mret.made
    /\ mret.arg # mret.val
    /\ nmade[mret.key] = 1

\* C14: a reference returned for key k designates the value stored for k
\* after any later insertions.
C14_ReferenceStable ==
    ref.key # 0 =>
        /\ ref.live
        /\ ref.pos <= Len(map)
        /\ map[ref.pos][1] = ref.key

\* C15: the calls exclude each other: one thread at most is inside a call,
\* the map holds one pair at most for a key, one value was constructed for a
\* key that is in the map and none for a key that is not, the stored value
\* is the first writer's, and the last call was returned the stored value.
C15_OneInsertion ==
    /\ Cardinality({t \in Tasks : mthr[t].pc = "held"}) <= 1
    /\ \A k \in Keys :
         /\ Cardinality({i \in 1..Len(map) : map[i][1] = k}) <= 1
         /\ nmade[k] = IF Lookup(map, k) # NullPtr THEN 1 ELSE 0
         /\ Lookup(map, k) = first[k]
    /\ mret.op # "none" => mret.val = Lookup(map, mret.key)

\* C15 witness: two threads' calls with the same key, not in the map, were
\* in progress at once; all calls have returned, one value was constructed
\* for the key, and the call that returned last was returned that value, not
\* the one it would have made.
C15_Witness ==
    /\ raced # 0
    /\ \A t \in Tasks : mthr[t].pc = "idle"
    /\ mret.key = raced
    /\ ~mret.made
    /\ mret.arg # mret.val
    /\ nmade[raced] = 1
    /\ mret.val = Lookup(map, raced)

\* C13: the first done() on a job hands one write of magnitude 1 to
\* async_write, and the handler is called if and only if that write fails;
\* every later done() on the job, the one of ~job included, sends nothing
\* and calls no handler, also when the first write failed; done() returns to
\* its caller in every case.
C13_DoneIdempotent ==
    /\ [](handled = lost)
    /\ [][\A j \in JobIds :
            (~completed[j] /\ completed'[j]) =>
                /\ writes'[j] = <<1>>
                /\ \/ (chan' = chan + 1 /\ handled' = handled)
                   \/ (chan' = chan /\ handled' = handled + 1)]_vars
    /\ [][(\A j \in JobIds : completed[j] => completed'[j])
          /\ (\E j \in JobIds : completed[j] /\ doneCalls'[j] # doneCalls[j])
          => (chan' = chan /\ writes' = writes /\ handled' = handled
              /\ pc' = pc)]_vars
    /\ [][(\E j \in JobIds : completed[j] /\ jstate'[j] # jstate[j])
          => (chan' = chan /\ writes' = writes /\ handled' = handled
              /\ pc' = pc)]_vars

\* C13 witness: a job whose write failed (the handler was called once), on
\* which done() was called again and which was then destroyed: one write,
\* one handler call, nothing in the eventfd.
C13_Witness ==
    \E j \in JobIds :
        /\ jstate[j] = "destroyed"
        /\ doneCalls[j] = 2
        /\ writes[j] = <<1>>
        /\ Cardinality({i \in JobIds : completed[i]}) = 1
        /\ lost = 1
        /\ handled = 1
        /\ chan = 0
        /\ InFlight = 0

\* C16: a read of the channel by a task suspended in wait() returns the
\* whole pending count n >= 1 and leaves 0; when the task is resumed,
\* m_outstanding goes down by n in one step; wait_for_all_outstanding then
\* tests m_outstanding again, and next_job tests the admission condition
\* again, with the limit as it is then and m_outstanding as it is after the
\* subtraction, before it increments m_outstanding.
C16_WholeBatch ==
    /\ [][\A t \in Tasks :
            (pc[t] \in {"nj_wait", "wfa_wait"} /\ pc'[t] \in {"nj_read", "wfa_read"})
            => (chan >= 1 /\ count'[t] = chan /\ chan' = 0)]_vars
    /\ [][\A t \in Tasks :
            (pc[t] = "wfa_read" /\ pc'[t] # "wfa_read")
            => LET out == (m_outstanding - count[t]) % Modulus IN
                 /\ m_outstanding' = out
                 /\ pc'[t] = IF out = 0 THEN "idle" ELSE "wfa_wait"]_vars
    /\ [][\A t \in Tasks :
            (pc[t] = "nj_read" /\ pc'[t] # "nj_read")
            => LET out == (m_outstanding - count[t]) % Modulus IN
                 IF m_limit = 0 \/ out < m_limit
                   THEN /\ m_outstanding' = (out + 1) % Modulus
                        /\ nextId' = nextId + 1
                        /\ pc'[t] = "idle"
                   ELSE /\ m_outstanding' = out
                        /\ nextId' = nextId
                        /\ pc'[t] = "nj_wait"]_vars

\* C16 witness: after the limit was changed, the read of a call suspended in
\* next_job returned two completions at once.
C16_Witness ==
    /\ pc[1] = "nj_read"
    /\ count[1] >= 2
    /\ chan = 0
    /\ adjusts > 0

\* C17 as stated: while every send has succeeded, m_outstanding is the
\* number of jobs admitted and not yet signalled plus the count pending in
\* the eventfd.
C17_Original == lost = 0 => m_outstanding = Unsignalled + chan

\* C17 as amended: while every send has succeeded, m_outstanding is the
\* number of jobs admitted and not yet signalled, plus the count pending in
\* the eventfd, plus the counts read from the eventfd by tasks that have not
\* yet subtracted them; the count a task is about to subtract does not
\* exceed m_outstanding, so the subtraction does not wrap.
C17_Conservation ==
    lost = 0 =>
        /\ m_outstanding = Unsignalled + chan + InFlight
        /\ \A t \in Tasks : count[t] <= m_outstanding
        /\ InFlight <= m_outstanding

\* C17 witness: every send has succeeded; one job is not signalled, one
\* completion is pending in the eventfd, one was read and is not yet
\* subtracted.
C17_Witness ==
    /\ lost = 0
    /\ Unsignalled >= 1
    /\ chan >= 1
    /\ InFlight >= 1
    /\ m_outstanding = Unsignalled + chan + InFlight

\* C18: with a constant limit L > 0 and every task calling next_job,
\* m_outstanding never exceeds L, and a job is handed out only in a step
\* that finds m_outstanding, less what the task has just read, under L, and
\* increments it in that same step.
C18_ConcurrentAdmitters ==
    /\ [](m_outstanding <= m_limit)
    /\ [][nextId' = nextId + 1 =>
            \E t \in Tasks :
                /\ pc[t] \in {"idle", "nj_read"}
                /\ pc'[t] = "idle"
                /\ m_outstanding - count[t] < m_limit
                /\ m_outstanding' = m_outstanding - count[t] + 1]_vars

\* C18 witness: every task is suspended in next_job with m_outstanding at
\* the limit, after a task that had waited was admitted.
C18_Witness ==
    /\ \A t \in Tasks : pc[t] = "nj_wait"
    /\ m_outstanding = m_limit
    /\ nextId > m_limit

\* C19: with a constant limit L > 0 and every task calling next_job, while a
\* task is suspended in next_job (its read not done) either m_outstanding is
\* not under L or the eventfd counter is not 0.
C19_NoLostWakeup ==
    \A t \in Tasks :
        pc[t] = "nj_wait" => (m_outstanding >= m_limit \/ chan > 0)

\* C20: when every admitted job signals in the end, every send succeeds, no
\* next_job call is made during the drain and the draining task is the only
\* reader of the eventfd, a wait_for_all_outstanding call that suspended
\* returns in the end, with m_outstanding = 0.
C20_DrainReturns ==
    (pc[2] \in {"wfa_wait", "wfa_read"}) ~> (pc[2] = "idle" /\ m_outstanding = 0)

\* C20 witness: with no limit (next_job never reads the eventfd) every job of
\* the behaviour was admitted and destroyed, and the drain has subtracted
\* them all and returned.
C20_Witness ==
    /\ m_limit = 0
    /\ nextId = MaxJobs
    /\ \A j \in JobIds : jstate[j] = "destroyed"
    /\ pc[2] = "idle"
    /\ drainedAt = 0
    /\ m_outstanding = 0
    /\ chan = 0

====
